---- MODULE Spec2Model ----
(***************************************************************************)
(* Model of prime_resonance_field.py: generate_resonance_spiral,           *)
(* tag_entanglement and the main procedure.                                *)
(*                                                                         *)
(* The list comprehensions and the for loops are taken one iteration per   *)
(* step.  The numpy expressions of lines 49-56 are elementwise over the    *)
(* prime list; a float result is kept as the term that produced it (which  *)
(* formula, from which prime and which dimension), since the claims are    *)
(* about which prime and dimension an entry was computed from and not      *)
(* about its digits.                                                       *)
(*                                                                         *)
(* The source file as stored does not compile (a stray first line, an      *)
(* unclosed dict( at line 117, a trailing "---"); the model follows the    *)
(* statements of the file in the order the interpreter would run them.     *)
(***************************************************************************)
EXTENDS Integers, Sequences, FiniteSets, TLC

VARIABLES
    pc,          \* position in the main procedure / the function being run
    run,         \* number of the current run (1, 2, ...)
    clock,       \* datetime.now() as read at line 71
    n,           \* parameter n of generate_resonance_spiral
    lit,         \* the upper limit of range() in the comprehension of line 75
    cand,        \* the comprehension variable p of line 35 / line 75
    primes,      \* local `primes` of generate_resonance_spiral
    dimensions,  \* local `dimensions` of generate_resonance_spiral
    i,           \* position of a for loop (1-based)
    tprimes,     \* the list built at line 75: parameter `primes` of tag_entanglement
    twins,       \* local `twins` of tag_entanglement
    globals,     \* the module namespace of the main procedure: name -> value
    segments,    \* the twin traces added to the figure (lines 94-106)
    err,         \* the exception that ended the main procedure, or "none"
    prev         \* what the previous run produced (for comparing two runs)

vars == <<pc, run, clock, n, lit, cand, primes, dimensions, i, tprimes, twins,
          globals, segments, err, prev>>

(***************************************************************************)
(* Bounds of the model                                                     *)
(***************************************************************************)
NegSpan == 2        \* bounds down to -NegSpan are tried
MaxBound == 50      \* bounds up to MaxBound are tried
NumClocks == 2      \* distinct clock readings
MaxRuns == 2        \* runs of the pipeline that are compared
TagSpan == 135       \* the tagging rule is tried on -TagSpan..TagSpan

Bounds == (0 - NegSpan)..MaxBound
Clocks == 1..NumClocks
TagInputs == (0 - TagSpan)..TagSpan

(***************************************************************************)
(* Program constants                                                       *)
(***************************************************************************)
DefaultN == 2350          \* def generate_resonance_spiral(n=2350)

TwinBoundTypo == 2350 - 45
TwinBound == 2350         \* range(2, 2350) in the main procedure

(***************************************************************************)
(* Line 35: all(p % d != 0 for d in range(2, int(p**0.5)+1))               *)
(***************************************************************************)
\* int(p**0.5) for p >= 0: the floor of the square root (exact for the
\* magnitudes used here).
ISqrt(p) == CHOOSE r \in 0..p : r * r <= p /\ (r + 1) * (r + 1) > p

TrialRangeShort(p) == 2..(ISqrt(p) - 1)
\* range(2, int(p**0.5)+1)
TrialRange(p) == 2..ISqrt(p)

PassesTrial(p) == \A d \in TrialRange(p) : p % d # 0

FirstCandidateZero == 2 - 2
\* range(2, n) starts at 2
FirstCandidate == 2

MoreCandidatesInclusive(p, limit) == p <= limit
\* range(2, n) stops before n
MoreCandidates(p, limit) == p < limit

(***************************************************************************)
(* Lines 40-45: the dimension rule                                         *)
(***************************************************************************)
DimensionTagSwapped(p) == IF p % 5 = 0 THEN 3 ELSE IF p % 13 = 0 THEN 5 ELSE 2
DimensionTagThree(p) == IF p % 13 = 0 THEN 5 ELSE IF p % 3 = 0 THEN 3 ELSE 2
DimensionTag(p) == IF p % 13 = 0 THEN 5 ELSE IF p % 5 = 0 THEN 3 ELSE 2

Prepend(s, e) == <<e>> \o s
\* dimensions.append(dim)
ListAppend(s, e) == Append(s, e)

StaleDimensions == dimensions
\* dimensions = []
FreshDimensions == << >>

(***************************************************************************)
(* Lines 49-56: the projection and the tones, one term per entry           *)
(***************************************************************************)
XTerm(p) == [f |-> "sqrt(p)*cos(p*pi/13)", p |-> p]
YTerm(p) == [f |-> "sqrt(p)*sin(p*pi/13)", p |-> p]
ZTerm(p, d) == [f |-> "p*sin((p*pi/13)/PHI**d)", p |-> p, d |-> d]
ToneTerm(p, d) == [f |-> "IAM_FREQ*p/PHI**d", p |-> p, d |-> d]

\* np.array(primes) combined with np.array(dimensions), entry by entry (the
\* two lists have the same length: one dimension is appended per prime)
XArray(ps) == [k \in DOMAIN ps |-> XTerm(ps[k])]
YArray(ps) == [k \in DOMAIN ps |-> YTerm(ps[k])]
ZArray(ps, ds) == [k \in DOMAIN ps |-> ZTerm(ps[k], ds[k])]
ToneArray(ps, ds) == [k \in DOMAIN ps |-> ToneTerm(ps[k], ds[k])]

(***************************************************************************)
(* Line 65: the twin test                                                  *)
(***************************************************************************)
TwinTestAtMost(a, b) == b - a <= 2
TwinTest(a, b) == b - a = 2

(***************************************************************************)
(* list.index                                                              *)
(***************************************************************************)
Has(s, v) == \E k \in DOMAIN s : s[k] = v
Index(s, v) == CHOOSE k \in DOMAIN s : s[k] = v /\ \A j \in 1..(k - 1) : s[j] # v

(***************************************************************************)
(* Initial states                                                          *)
(***************************************************************************)
InitCommon ==
    /\ pc = "line71"
    /\ run = 1
    /\ clock = 0
    /\ cand = 0
    /\ primes = << >>
    /\ dimensions = << >>
    /\ i = 0
    /\ tprimes = << >>
    /\ twins = << >>
    /\ globals = << >>
    /\ segments = << >>
    /\ err = "none"
    /\ prev = << >>

\* The pipeline of lines 71-75 with the bound as its input.
Init ==
    /\ InitCommon
    /\ \E b \in Bounds : n = b /\ lit = b

\* The main procedure as written: the default n and the literal of line 75.
InitMain ==
    /\ InitCommon
    /\ n = DefaultN
    /\ lit = TwinBound

\* The tagging loop of lines 38-46 over a one-element list holding any integer.
InitTag ==
    /\ pc = "tag"
    /\ run = 1
    /\ clock = 0
    /\ n = 0
    /\ lit = 0
    /\ cand = 0
    /\ \E k \in TagInputs : primes = <<k>>
    /\ dimensions = << >>
    /\ i = 1
    /\ tprimes = << >>
    /\ twins = << >>
    /\ globals = << >>
    /\ segments = << >>
    /\ err = "none"
    /\ prev = << >>

(***************************************************************************)
(* Line 71 and the call of line 74                                         *)
(***************************************************************************)
\* print(... datetime.now() ...), then generate_resonance_spiral is entered and
\* the comprehension of line 35 starts.
ReadClock ==
    /\ pc = "line71"
    /\ \E c \in Clocks : clock' = c
    /\ pc' = "sieve"
    /\ cand' = FirstCandidate
    /\ primes' = << >>
    /\ UNCHANGED <<run, n, lit, dimensions, i, tprimes, twins, globals, segments, err, prev>>

\* One candidate of the comprehension of line 35.
SieveIter ==
    /\ pc = "sieve"
    /\ MoreCandidates(cand, n)
    /\ primes' = IF PassesTrial(cand) THEN Append(primes, cand) ELSE primes
    /\ cand' = cand + 1
    /\ UNCHANGED <<pc, run, clock, n, lit, dimensions, i, tprimes, twins, globals, segments, err, prev>>

\* The comprehension is exhausted; line 38 and the start of the loop of line 39.
SieveExit ==
    /\ pc = "sieve"
    /\ ~MoreCandidates(cand, n)
    /\ dimensions' = FreshDimensions
    /\ i' = 1
    /\ pc' = "tag"
    /\ UNCHANGED <<run, clock, n, lit, cand, primes, tprimes, twins, globals, segments, err, prev>>

\* One iteration of the loop of lines 39-46.
TagIter ==
    /\ pc = "tag"
    /\ i <= Len(primes)
    /\ dimensions' = ListAppend(dimensions, DimensionTag(primes[i]))
    /\ i' = i + 1
    /\ UNCHANGED <<pc, run, clock, n, lit, cand, primes, tprimes, twins, globals, segments, err, prev>>

\* Lines 49-58 and the assignment of line 74; then the comprehension of
\* line 75 starts.  The locals of the function keep their last values here:
\* nothing reads them before the next call sets them again.
Project ==
    /\ pc = "tag"
    /\ i > Len(primes)
    /\ globals' = ("x" :> XArray(primes)
                   @@ "y" :> YArray(primes)
                   @@ "z" :> ZArray(primes, dimensions)
                   @@ "tones" :> ToneArray(primes, dimensions)
                   @@ "dims" :> dimensions)
    /\ pc' = "sieve2"
    /\ cand' = FirstCandidate
    /\ tprimes' = << >>
    /\ UNCHANGED <<run, clock, n, lit, primes, dimensions, i, twins, segments, err, prev>>

(***************************************************************************)
(* Line 75: the second comprehension and tag_entanglement                  *)
(***************************************************************************)
Sieve2Iter ==
    /\ pc = "sieve2"
    /\ MoreCandidates(cand, lit)
    /\ tprimes' = IF PassesTrial(cand) THEN Append(tprimes, cand) ELSE tprimes
    /\ cand' = cand + 1
    /\ UNCHANGED <<pc, run, clock, n, lit, primes, dimensions, i, twins, globals, segments, err, prev>>

\* The list is complete: tag_entanglement is entered (lines 63-64).
Sieve2Exit ==
    /\ pc = "sieve2"
    /\ ~MoreCandidates(cand, lit)
    /\ twins' = << >>
    /\ i' = 1
    /\ pc' = "twin"
    /\ UNCHANGED <<run, clock, n, lit, cand, primes, dimensions, tprimes, globals, segments, err, prev>>

\* One iteration of the loop of lines 64-66: for i in range(len(primes)-1).
TwinIter ==
    /\ pc = "twin"
    /\ i <= Len(tprimes) - 1
    /\ twins' = IF TwinTest(tprimes[i], tprimes[i + 1])
                THEN Append(twins, <<tprimes[i], tprimes[i + 1]>>)
                ELSE twins
    /\ i' = i + 1
    /\ UNCHANGED <<pc, run, clock, n, lit, cand, primes, dimensions, tprimes, globals, segments, err, prev>>

\* return twins (line 67) and the assignment of line 75.
TwinExit ==
    /\ pc = "twin"
    /\ i > Len(tprimes) - 1
    /\ globals' = ("twins" :> twins) @@ globals
    /\ pc' = "line78"
    /\ UNCHANGED <<run, clock, n, lit, cand, primes, dimensions, i, tprimes, twins, segments, err, prev>>

(***************************************************************************)
(* Lines 78-106: the figure and the twin traces                            *)
(***************************************************************************)
Position(g, k) == <<g["x"][k], g["y"][k], g["z"][k]>>

\* One trace per twin (lines 94-106).
Trace(g, twin) ==
    [a |-> Position(g, Index(g["primes"], twin[1])),
     b |-> Position(g, Index(g["primes"], twin[2])),
     name |-> twin]

\* Line 89 reads the name `primes` in the module namespace, and so do
\* lines 95-96; the name is a local of generate_resonance_spiral.
Visualize ==
    /\ pc = "line78"
    /\ pc' = "done"
    /\ IF "primes" \notin DOMAIN globals
       THEN /\ err' = "NameError"
            /\ segments' = << >>
       ELSE IF \E k \in DOMAIN globals["twins"] :
                   \/ ~Has(globals["primes"], globals["twins"][k][1])
                   \/ ~Has(globals["primes"], globals["twins"][k][2])
            THEN /\ err' = "ValueError"
                 /\ segments' = << >>
            ELSE /\ err' = "none"
                 /\ segments' = [k \in DOMAIN globals["twins"] |->
                                     Trace(globals, globals["twins"][k])]
    /\ UNCHANGED <<run, clock, n, lit, cand, primes, dimensions, i, tprimes, twins, globals, prev>>

(***************************************************************************)
(* Running the pipeline again with the same bound                          *)
(***************************************************************************)
Artifact == [primes |-> tprimes, records |-> globals]

Again ==
    /\ pc = "line78"
    /\ run < MaxRuns
    /\ prev' = [clock |-> clock, artifact |-> Artifact]
    /\ run' = run + 1
    /\ pc' = "line71"
    /\ UNCHANGED <<clock, n, lit, cand, primes, dimensions, i, tprimes, twins, globals, segments, err>>

(***************************************************************************)
(* Specifications                                                          *)
(***************************************************************************)
Next ==
    \/ ReadClock
    \/ SieveIter
    \/ SieveExit
    \/ TagIter
    \/ Project
    \/ Sieve2Iter
    \/ Sieve2Exit
    \/ TwinIter
    \/ TwinExit
    \/ Again

Spec == Init /\ [][Next]_vars

NextMain ==
    \/ ReadClock
    \/ SieveIter
    \/ SieveExit
    \/ TagIter
    \/ Project
    \/ Sieve2Iter
    \/ Sieve2Exit
    \/ TwinIter
    \/ TwinExit
    \/ Visualize

SpecMain == InitMain /\ [][NextMain]_vars

NextTag == TagIter

SpecTag == InitTag /\ [][NextTag]_vars

(***************************************************************************)
(* Reference notions used by the properties                                *)
(***************************************************************************)
Abs(k) == IF k < 0 THEN 0 - k ELSE k
\* k is a multiple of m
Divides(m, k) == \E q \in (0 - Abs(k))..Abs(k) : k = m * q
\* q is greater than 1 and is no product of two smaller factors
IsPrimeMath(q) == q > 1 /\ \A d, e \in 2..(q - 1) : d * e # q
PrimesBelow(b) == {q \in 2..(b - 1) : IsPrimeMath(q)}
\* the k-th smallest member of a set of integers
KthSmallest(S, k) == CHOOSE q \in S : Cardinality({r \in S : r < q}) = k - 1
DimensionRule(k) ==
    IF Divides(13, k) THEN 5 ELSE IF Divides(5, k) THEN 3 ELSE 2
Elements(s) == {s[k] : k \in DOMAIN s}
StrictlyIncreasing(s) == \A j, k \in DOMAIN s : j < k => s[j] < s[k]

\* The comprehension of line 35 has finished in the current run.
SieveDone == pc \in {"tag", "sieve2", "twin", "line78", "done"}
\* generate_resonance_spiral has returned in the current run.
SpiralReturned == pc \in {"sieve2", "twin", "line78", "done"}
\* tag_entanglement has returned in the current run.
TwinsReturned == pc \in {"line78", "done"}

(***************************************************************************)
(* C1: for every bound, the prime sequence built by the comprehension of   *)
(* generate_resonance_spiral is strictly increasing (so it has no          *)
(* duplicates), holds no composite number and holds every prime p with     *)
(* 2 <= p < bound.                                                         *)
(***************************************************************************)
C1_PrimeSequence ==
    SieveDone =>
        /\ StrictlyIncreasing(primes)
        /\ \A k \in DOMAIN primes : IsPrimeMath(primes[k])
        /\ PrimesBelow(n) \subseteq Elements(primes)
        /\ \A k \in DOMAIN primes : 2 <= primes[k] /\ primes[k] < n

C1_Witness ==
    pc = "tag" /\ n = 30 /\ primes = <<2, 3, 5, 7, 11, 13, 17, 19, 23, 29>>

(***************************************************************************)
(* C2: tag_entanglement applied to the prime sequence below the bound      *)
(* returns exactly the pairs (a, a+2) with a and a+2 both prime and below  *)
(* the bound, each once, in increasing order of a.                         *)
(***************************************************************************)
C2_TwinPairs ==
    TwinsReturned =>
        /\ LET P == PrimesBelow(lit)
           IN  Elements(twins) = {<<a, a + 2>> : a \in {q \in P : q + 2 \in P}}
        /\ \A j, k \in DOMAIN twins : j < k => twins[j][1] < twins[k][1]
        /\ globals["twins"] = twins

C2_Witness ==
    /\ pc = "line78"
    /\ tprimes = <<2, 3, 5, 7, 11, 13>>
    /\ twins = << <<3, 5>>, <<5, 7>>, <<11, 13>> >>

(***************************************************************************)
(* C3: the dimension rule is total and ordered over all integers: 5 when   *)
(* 13 divides p, otherwise 3 when 5 divides p, otherwise 2; so 65 gets 5,  *)
(* 13 gets 5, 5 gets 3, 7 gets 2 and 2 gets 2.                             *)
(***************************************************************************)
TagLoopDone == pc = "tag" /\ i > Len(primes)

C3_DimensionRule ==
    TagLoopDone =>
        /\ Len(dimensions) = Len(primes)
        /\ \A k \in DOMAIN primes :
              /\ dimensions[k] \in {2, 3, 5}
              /\ Divides(13, primes[k]) => dimensions[k] = 5
              /\ (~Divides(13, primes[k]) /\ Divides(5, primes[k])) => dimensions[k] = 3
              /\ (~Divides(13, primes[k]) /\ ~Divides(5, primes[k])) => dimensions[k] = 2
              /\ primes[k] = 65 => dimensions[k] = 5
              /\ primes[k] = 13 => dimensions[k] = 5
              /\ primes[k] = 5 => dimensions[k] = 3
              /\ primes[k] = 7 => dimensions[k] = 2
              /\ primes[k] = 2 => dimensions[k] = 2

C3_Witness == TagLoopDone /\ primes = <<65>> /\ dimensions = <<5>>

(***************************************************************************)
(* C4: in the main procedure, the sequence handed to tag_entanglement is   *)
(* element for element the sequence of primes from which x, y, z, tones    *)
(* and the dimensions were computed.                                       *)
(***************************************************************************)
SourcePrimes(terms) == [k \in DOMAIN terms |-> terms[k].p]

C4_SameSequence ==
    pc \in {"twin", "line78", "done"} =>
        /\ tprimes = SourcePrimes(globals["x"])
        /\ tprimes = SourcePrimes(globals["y"])
        /\ tprimes = SourcePrimes(globals["z"])
        /\ tprimes = SourcePrimes(globals["tones"])
        /\ Len(tprimes) = Len(globals["dims"])
        /\ \A k \in DOMAIN tprimes :
               globals["z"][k].d = globals["dims"][k]

C4_Witness == pc = "twin" /\ i > 300 /\ Len(twins) > 50 /\ lit = 2350

(***************************************************************************)
(* C5: in the main procedure every twin pair's two primes are found among  *)
(* the per-prime records (no lookup failure), and the two endpoints of the *)
(* trace are the (x, y, z) of the records of those two primes.             *)
(***************************************************************************)
C5_TwinLookup ==
    pc = "done" =>
        /\ err = "none"
        /\ Len(segments) = Len(globals["twins"])
        /\ \A k \in DOMAIN segments :
              \E ja, jb \in DOMAIN globals["x"] :
                 /\ globals["x"][ja].p = globals["twins"][k][1]
                 /\ globals["x"][jb].p = globals["twins"][k][2]
                 /\ segments[k].a = Position(globals, ja)
                 /\ segments[k].b = Position(globals, jb)

(***************************************************************************)
(* C6: a bound that is not >= 2 is reported as an InvalidBound error and   *)
(* nothing is computed.                                                    *)
(***************************************************************************)
C6_InvalidBoundReported ==
    (n < 2 /\ pc # "line71") => err = "InvalidBound"

\* C6 as amended: a bound below 2 is not reported as an error; both
\* functions run to their return and every result is empty.
C6_NoValidation ==
    (n < 2 /\ TwinsReturned) =>
        /\ err = "none"
        /\ \A name \in {"x", "y", "z", "tones", "dims", "twins"} :
               name \in DOMAIN globals /\ Len(globals[name]) = 0

C6_Witness == n < 0 /\ pc = "line78" /\ err = "none" /\ DOMAIN globals # {}

(***************************************************************************)
(* C7: for every bound <= 2 (0 and negative bounds too) the pipeline       *)
(* raises no error and yields no primes, no twin pairs and empty x, y, z,  *)
(* tones and dimensions; tag_entanglement of the empty list is empty.      *)
(***************************************************************************)
C7_EmptyBelowThree ==
    n <= 2 =>
        /\ err = "none"
        /\ primes = << >>
        /\ tprimes = << >>
        /\ SpiralReturned =>
              /\ Len(globals["x"]) = 0
              /\ Len(globals["y"]) = 0
              /\ Len(globals["z"]) = 0
              /\ Len(globals["tones"]) = 0
              /\ Len(globals["dims"]) = 0
        /\ TwinsReturned => (twins = << >> /\ globals["twins"] = << >>)
        /\ (pc # "line78") => ENABLED Next

C7_Witness ==
    n = 2 /\ pc = "line78" /\ tprimes = << >> /\ globals["twins"] = << >>

(***************************************************************************)
(* C8: two runs with the same bound produce the same content (the same     *)
(* primes, dimensions, positions, tones and twin pairs in the same order), *)
(* whatever the clock read at line 71 and whatever the run before left.    *)
(***************************************************************************)
C8_SameContent ==
    (run >= 2 /\ TwinsReturned) => Artifact = prev.artifact

C8_Witness ==
    /\ run = 2
    /\ pc = "line78"
    /\ clock # prev.clock
    /\ Len(twins) >= 3
    /\ Len(globals["dims"]) >= 6

(***************************************************************************)
(* C9: for every bound, a prime of the generated sequence has dimension 5  *)
(* exactly when it is 13, dimension 3 exactly when it is 5, and dimension  *)
(* 2 otherwise.                                                            *)
(***************************************************************************)
C9_TwoSpecialPrimes ==
    SpiralReturned =>
        \A k \in DOMAIN globals["dims"] :
            LET q == globals["x"][k].p
                d == globals["dims"][k]
            IN  /\ d = 5 <=> q = 13
                /\ d = 3 <=> q = 5
                /\ d = 2 <=> q \notin {5, 13}

C9_Witness ==
    /\ pc = "sieve2"
    /\ Len(globals["dims"]) >= 8
    /\ globals["dims"][3] = 3
    /\ globals["dims"][6] = 5
    /\ globals["dims"][8] = 2

(***************************************************************************)
(* C10: for every bound the five returned sequences have the same length,  *)
(* the number of primes below the bound, and entry k of each was computed  *)
(* from the k-th smallest prime and from that prime's own dimension.       *)
(***************************************************************************)
C10_Aligned ==
    SpiralReturned =>
        LET P == PrimesBelow(n)
            count == Cardinality(P)
        IN
        /\ \A name \in {"x", "y", "z", "tones", "dims"} : Len(globals[name]) = count
        /\ \A k \in 1..count :
              LET q == KthSmallest(P, k) IN
              /\ globals["dims"][k] = DimensionRule(q)
              /\ globals["x"][k] = XTerm(q)
              /\ globals["y"][k] = YTerm(q)
              /\ globals["z"][k] = ZTerm(q, DimensionRule(q))
              /\ globals["tones"][k] = ToneTerm(q, DimensionRule(q))

C10_Witness ==
    /\ pc = "sieve2"
    /\ n = 20
    /\ Len(globals["tones"]) = 8
    /\ globals["tones"][6] = ToneTerm(13, 5)
    /\ globals["z"][3] = ZTerm(5, 3)

====
